---------------------------- MODULE Spec2Model ----------------------------
(***************************************************************************)
(* The decision-and-allocation engine of src/main.py: the position ledger, *)
(* the TP/SL risk evaluation of the full cycle and of the fast loop, the   *)
(* strong-sell, funding and buy phases, and the scheduler loop of main().  *)
(*                                                                         *)
(* Arithmetic.  The program computes in binary floating point; the model   *)
(* computes the same expressions exactly.  Quantities are integers in      *)
(* units of 1/QScale coin, money is in units of 1/QScale dollar, prices    *)
(* are whole dollars per coin, and a cost basis (a quotient) is a fraction *)
(* <<numerator, denominator>> in lowest terms.                             *)
(***************************************************************************)
EXTENDS Integers, Sequences, FiniteSets, TLC

\* ------------------------------------------------------------ bounds
\* Finest quantity precision (decimal places) the model resolves.
MaxPrecision == 1
\* Cap on full_cycle_count (main.py:729), an unbounded counter.
MaxFullCycles == 1
\* Cap on quick_check_count (main.py:738), an unbounded counter.
MaxQuickChecks == 1
\* Caps on the two counters where the scheduler is followed over more than
\* two full-cycle periods, without exceptions.
SchedCycles == 3
SchedTicks == 81
\* Caps on the two counters where the scheduler is followed with exceptions
\* past the iteration an exception ends.
ErrCycles == 2
ErrChecks == 2
\* Caps on the two counters where the timer is followed with exceptions
\* from one due cycle to the next: a cycle may raise and be retried, and
\* the next one falls due after 40 fast checks.
TimerCycles == 2
TimerTicks == 40
\* Largest number of strong-buy candidates the planner is run for on its own.
MaxBuys == 4
\* The planner is run on its own for cash_to_invest from one to MaxPlanCash
\* money units above the $10 minimum.
MaxPlanCash == 12

\* ------------------------------------------------- program constants
TP_THRESHOLD == <<106, 100>>
SL_THRESHOLD == <<97, 100>>
STRONG_SELL_THRESHOLD == 13
WEAK_SELL_THRESHOLD == 8
QUICK_TP_SL_CHECK_INTERVAL == 15
FULL_TRADING_CYCLE_INTERVAL == 600
RESERVE_CASH == 20000
\* "if cash_to_invest <= 10" and "if allocation < 10", in dollars.
MIN_TRADE_USD == 10

\* --------------------------------------------------------- arithmetic
RECURSIVE Pow(_, _)
Pow(b, n) == IF n = 0 THEN 1 ELSE b * Pow(b, n - 1)

QScale == Pow(10, MaxPrecision)

RECURSIVE GCD(_, _)
GCD(a, b) == IF b = 0 THEN a ELSE GCD(b, a % b)

\* The quotient n/d (n >= 0, d > 0) in lowest terms.
Frac(n, d) == LET g == GCD(n, d) IN <<n \div g, d \div g>>

\* r >= t and r <= t for fractions with positive denominators.
FracGE(r, t) == r[1] * t[2] >= t[1] * r[2]
FracLE(r, t) == r[1] * t[2] <= t[1] * r[2]

\* --------------------------------------------------------- the universe
Coins == {"A", "B"}
\* The order in which the venue's SpotWallet lists the coins (dict order).
CoinOrder == <<"A", "B">>

NoRule == -1
\* PAIR_PRECISION as load_exchange_rules may fill it: decimal places per
\* pair, NoRule for a pair the venue gave no AmountPrecision for.
PrecisionTables ==
    { [c \in Coins |-> IF c = "A" THEN 0 ELSE 1],
      [c \in Coins |-> IF c = "A" THEN 1 ELSE NoRule] }

\* Wallet balances at start (units): nothing, or 1.5 coins, of which a
\* sell at precision 0 leaves 0.5 coin too small to sell.
StartQuantities ==
    [c \in Coins |-> {0, (15 * QScale) \div 10}]
\* Free cash at start (money units): $100, and $20 and $30 over the reserve.
StartCash == {100 * QScale, (RESERVE_CASH + 20) * QScale, (RESERVE_CASH + 30) * QScale}
\* Cost basis a ledger file written by an earlier run holds.
StartBuyPrice == <<100, 1>>

\* Prices a ticker can carry; 0 stands for an unusable price.  Against a
\* cost basis of 100 they sit on and next to both thresholds.
TickerPrices == {0, 97, 98, 105, 106}
BUY == "BUY"
SELL == "SELL"
NEUTRAL == "NEUTRAL"
\* (price, signal, buy votes, sell votes) as the technical source can
\* report them for the first instrument: every vote class, on and next to
\* the vote thresholds, met with prices of every risk class.
SignalRows ==
    { <<106, BUY, 13, 0>>, <<100, BUY, 13, 0>>, <<0, BUY, 13, 0>>,
      <<97, BUY, 14, 8>>, <<105, BUY, 14, 8>>, <<100, BUY, 12, 7>>,
      <<106, SELL, 3, 13>>, <<105, SELL, 3, 13>>, <<98, SELL, 5, 12>>,
      <<97, NEUTRAL, 9, 8>>, <<98, NEUTRAL, 9, 8>>, <<105, NEUTRAL, 13, 7>> }
\* ... and for the other instrument: a strong buy ranking level with,
\* above or below the first one's, a strong sell at a take-profit price,
\* and a weak sell at a stop-loss price.
OtherSignalRows ==
    { <<100, BUY, 13, 0>>, <<105, BUY, 14, 8>>, <<106, SELL, 3, 13>>, <<97, NEUTRAL, 9, 8>> }
\* One instrument's entry of get_all_technicals' result (main.py:374).
TechRow(v) ==
    [price |-> v[1], signal |-> v[2], buy |-> v[3], sell |-> v[4], score |-> v[3] - v[4]]
TechRows(c) ==
    IF c = "A" THEN {TechRow(v) : v \in SignalRows} ELSE {TechRow(v) : v \in OtherSignalRows}
\* The technical source may return no entry for an instrument.
Technicals ==
    UNION { { t \in [S -> UNION {TechRows(c) : c \in Coins}] : \A c \in S : t[c] \in TechRows(c) }
              : S \in SUBSET Coins }

\* The venue's answers to an order.
FillPrices == {100}
SellOutcomes == {[ok |-> FALSE, px |-> 0]} \cup {[ok |-> TRUE, px |-> p] : p \in FillPrices}
\* A buy the venue accepts reports FilledQuantity: all of it, or 0.
BuyOutcomes ==
    {[ok |-> FALSE, px |-> 0, full |-> FALSE]}
        \cup {[ok |-> TRUE, px |-> p, full |-> f] : p \in FillPrices, f \in BOOLEAN}

VARIABLES
    wallet,                 \* venue: coin -> quantity held (Free + Lock)
    cash,                   \* venue: free USD
    PAIR_PRECISION,         \* main.py:47, filled once by load_exchange_rules
    portfolio,              \* the ledger: coin -> [buy_price, quantity]
    disk,                   \* portfolio.json as last written
    pc,                     \* where main() and trading_cycle() stand
    time_since_full_cycle,  \* main.py:720
    full_cycle_count,       \* main.py:719
    quick_check_count,      \* main.py:718
    positions,              \* trading_cycle's positions (main.py:678)
    technicals,             \* trading_cycle's technicals (main.py:684)
    available_cash,         \* trading_cycle's available_cash (main.py:676)
    orders,                 \* place_order calls of the running cycle or check
    evals,                  \* risk classifications of the running cycle or check
    plan                    \* execute_buys' planner locals (main.py:642-646)

vars == <<wallet, cash, PAIR_PRECISION, portfolio, disk, pc, time_since_full_cycle,
          full_cycle_count, quick_check_count, positions, technicals, available_cash,
          orders, evals, plan>>

Empty == [c \in {} |-> 0]
\* No planner is running.
NoPlan == [num_buys |-> 0, cash_to_invest |-> 0, i |-> 0, allocations |-> <<>>]
NotEvaluated == [c \in Coins |-> [class |-> "NONE", price |-> 0, buy_price |-> <<0, 1>>]]


\* ------------------------------------------------------------ the venue
\* place_order(pair, 'SELL', quantity) and the venue behind it: the venue
\* rejects a sell of more than it holds for the account, and otherwise
\* answers as `out` says; a fill moves the coins out and credits
\* UnitChange = quantity * fill price.
place_sell(st, coin, quantity, out) ==
    LET ok == out.ok /\ st.wallet[coin] >= quantity
    IN  [ ok |-> ok,
          UnitChange |-> IF ok THEN quantity * out.px ELSE 0,
          wallet |-> IF ok THEN [st.wallet EXCEPT ![coin] = @ - quantity] ELSE st.wallet,
          cash |-> IF ok THEN st.cash + quantity * out.px ELSE st.cash ]

\* The quantity n/d rounded up to the precision.
TruncateFrac_rounding_up(n, d, precision) ==
    LET unit == QScale \div Pow(10, precision)
    IN  ((n + d * unit - 1) \div (d * unit)) * unit

\* math.floor(quantity * factor) / factor with factor = 10 ** precision,
\* of the quantity n/d units.
TruncateFrac(n, d, precision) ==
    LET unit == QScale \div Pow(10, precision)
    IN  (n \div (d * unit)) * unit

\* No truncation at all.
Truncate_skipped(quantity, precision) == quantity

Truncate(quantity, precision) == TruncateFrac(quantity, 1, precision)

\* place_order(pair, 'BUY', quantity) and the venue behind it: the venue
\* rejects a buy the free cash does not cover, and otherwise answers as
\* `out` says; a fill moves the coins in and debits the cash.
place_buy(st, coin, quantity, out) ==
    LET ok == out.ok /\ st.cash >= quantity * out.px
        filled == IF ok /\ out.full THEN quantity ELSE 0
    IN  [ ok |-> ok,
          FilledQuantity |-> filled,
          wallet |-> [st.wallet EXCEPT ![coin] = @ + filled],
          cash |-> st.cash - filled * out.px ]

\* One entry of the order log: a place_order call and its answer.
Order(coin, side, quantity, reason, held, price, ok, usd, filled) ==
    [ coin |-> coin, side |-> side, quantity |-> quantity, reason |-> reason,
      held |-> held, price |-> price, ok |-> ok, usd |-> usd, filled |-> filled ]

\* ----------------------------------------------------------- the ledger
\* get_current_positions: the coins of the wallet held above the dust
\* threshold 1e-8, which lies below the model's resolution.
get_current_positions(w) ==
    LET held == {c \in Coins : w[c] > 0}
    IN  [c \in held |-> w[c]]

\* The coins of a dict with domain S, in iteration order.
InOrder(S) == SelectSeq(CoinOrder, LAMBDA c : c \in S)

\* The entry removed instead of zeroed.
zero_quantity_deleting(pf, coin) ==
    [c \in DOMAIN pf \ {coin} |-> pf[c]]

\* "portfolio[coin]['quantity'] = 0; save_portfolio(portfolio)" under
\* "if coin in portfolio": the entry stays, its quantity is zeroed.
zero_quantity(pf, coin) ==
    IF coin \in DOMAIN pf THEN [pf EXCEPT ![coin].quantity = 0] ELSE pf

\* A ledger entry as update_portfolio_on_buy creates it for a new coin.
NewEntry == [buy_price |-> <<0, 1>>, quantity |-> 0]

\* update_portfolio_on_buy with the bought quantity subtracted.
update_portfolio_on_buy_subtracting(pf, coin, quantity, current_price) ==
    LET p0 == IF coin \in DOMAIN pf THEN pf ELSE pf @@ (coin :> NewEntry)
    IN  [p0 EXCEPT ![coin].quantity = @ - quantity]

\* update_portfolio_on_buy with the cost basis overwritten by the last price.
update_portfolio_on_buy_last_price(pf, coin, quantity, current_price) ==
    LET p0 == IF coin \in DOMAIN pf THEN pf ELSE pf @@ (coin :> NewEntry)
    IN  [p0 EXCEPT ![coin] = [buy_price |-> <<current_price, 1>>,
                              quantity |-> @.quantity + quantity]]

\* update_portfolio_on_buy with the old cost basis weighted by the new
\* total instead of the old quantity.
update_portfolio_on_buy_inheriting(pf, coin, quantity, current_price) ==
    LET p0 == IF coin \in DOMAIN pf THEN pf ELSE pf @@ (coin :> NewEntry)
        old_price == p0[coin].buy_price
        new_total_qty == p0[coin].quantity + quantity
    IN  [p0 EXCEPT ![coin] =
            [buy_price |-> Frac(old_price[1] * new_total_qty
                                  + current_price * quantity * old_price[2],
                                2 * old_price[2] * new_total_qty),
             quantity |-> new_total_qty]]

\* update_portfolio_on_buy with the buy's price added to the cost basis.
update_portfolio_on_buy_adding_price(pf, coin, quantity, current_price) ==
    LET p0 == IF coin \in DOMAIN pf THEN pf ELSE pf @@ (coin :> NewEntry)
        old_price == p0[coin].buy_price
    IN  [p0 EXCEPT ![coin] =
            [buy_price |-> Frac(old_price[1] + current_price * old_price[2], old_price[2]),
             quantity |-> @.quantity + quantity]]

\* update_portfolio_on_buy: the weighted average purchase price.
update_portfolio_on_buy(pf, coin, quantity, current_price) ==
    LET p0 == IF coin \in DOMAIN pf
              THEN pf
              ELSE pf @@ (coin :> NewEntry)
        old_qty == p0[coin].quantity
        old_price == p0[coin].buy_price
        new_total_qty == old_qty + quantity
        new_price == IF new_total_qty > 0
                     THEN Frac(old_price[1] * old_qty + current_price * quantity * old_price[2],
                               old_price[2] * new_total_qty)
                     ELSE old_price
    IN  [p0 EXCEPT ![coin] = [buy_price |-> new_price, quantity |-> new_total_qty]]

\* sell_position adding the order's value to the proceeds whether or not
\* the order succeeded.
sell_position_counting_failed(st, coin, quantity, reason, out) ==
    LET precision == st.prec[coin]
        adjusted_quantity == Truncate(quantity, precision)
        r == place_sell(st, coin, adjusted_quantity, out)
        pf == IF r.ok THEN zero_quantity(st.pf, coin) ELSE st.pf
    IN  IF precision = NoRule \/ adjusted_quantity <= 0
        THEN st
        ELSE [st EXCEPT !.wallet = r.wallet,
                        !.cash = r.cash,
                        !.pf = pf,
                        !.disk = IF r.ok /\ coin \in DOMAIN st.pf THEN pf ELSE @,
                        !.total_received = @ + adjusted_quantity * out.px,
                        !.log = Append(@, Order(coin, "SELL", adjusted_quantity, reason,
                                                quantity, 0, r.ok, r.UnitChange, 0))]

\* sell_position with the ledger zeroed whatever the order's answer.
sell_position_zeroing_always(st, coin, quantity, reason, out) ==
    LET precision == st.prec[coin]
        adjusted_quantity == Truncate(quantity, precision)
        r == place_sell(st, coin, adjusted_quantity, out)
        pf == zero_quantity(st.pf, coin)
    IN  IF precision = NoRule \/ adjusted_quantity <= 0
        THEN st
        ELSE [st EXCEPT !.wallet = r.wallet,
                        !.cash = r.cash,
                        !.pf = pf,
                        !.disk = IF coin \in DOMAIN st.pf THEN pf ELSE @,
                        !.total_received = @ + r.UnitChange,
                        !.log = Append(@, Order(coin, "SELL", adjusted_quantity, reason,
                                                quantity, 0, r.ok, r.UnitChange, 0))]

\* ------------------------------------------------- the sell loops' body
\* The body the three sell loops of the full cycle share (main.py:508-544,
\* 456-487, 573-608): no precision rule or a truncated quantity of 0 gives
\* no order; a fill adds the proceeds, zeroes the ledger quantity and saves.
sell_position(st, coin, quantity, reason, out) ==
    LET precision == st.prec[coin]
        adjusted_quantity == Truncate(quantity, precision)
        r == place_sell(st, coin, adjusted_quantity, out)
        pf == IF r.ok THEN zero_quantity(st.pf, coin) ELSE st.pf
    IN  IF precision = NoRule \/ adjusted_quantity <= 0
        THEN st
        ELSE [st EXCEPT !.wallet = r.wallet,
                        !.cash = r.cash,
                        !.pf = pf,
                        !.disk = IF r.ok /\ coin \in DOMAIN st.pf THEN pf ELSE @,
                        !.total_received = @ + r.UnitChange,
                        !.log = Append(@, Order(coin, "SELL", adjusted_quantity, reason,
                                                quantity, 0, r.ok, r.UnitChange, 0))]

\* What a handler's loops thread through: the venue, the ledger in memory
\* and on disk, the order log, and the loop's running total.
LoopState(total) ==
    [ wallet |-> wallet, cash |-> cash, prec |-> PAIR_PRECISION, pf |-> portfolio,
      disk |-> disk, log |-> <<>>, ev |-> NotEvaluated, total_received |-> total ]

\* ------------------------------------------------ the risk phase (full)
\* classify_holding with both thresholds exclusive.
classify_holding_exclusive(coin, tech, pf) ==
    IF coin \notin DOMAIN pf \/ coin \notin DOMAIN tech
    THEN [class |-> "NODATA", price |-> 0, buy_price |-> <<0, 1>>]
    ELSE LET buy_price == pf[coin].buy_price
             current_price == tech[coin].price
             price_ratio == IF buy_price[1] > 0
                            THEN <<current_price * buy_price[2], buy_price[1]>>
                            ELSE <<1, 1>>
         IN  [ class |-> IF ~FracLE(price_ratio, TP_THRESHOLD) THEN "TP"
                         ELSE IF ~FracGE(price_ratio, SL_THRESHOLD) THEN "SL"
                         ELSE "SAFE",
               price |-> current_price, buy_price |-> buy_price ]

\* get_holdings_to_sell_for_tp_sl, one position: its class, with the
\* price and cost basis it was taken from.
classify_holding(coin, tech, pf) ==
    IF coin \notin DOMAIN pf \/ coin \notin DOMAIN tech
    THEN [class |-> "NODATA", price |-> 0, buy_price |-> <<0, 1>>]
    ELSE LET buy_price == pf[coin].buy_price
             current_price == tech[coin].price
             price_ratio == IF buy_price[1] > 0
                            THEN <<current_price * buy_price[2], buy_price[1]>>
                            ELSE <<1, 1>>
         IN  [ class |-> IF FracGE(price_ratio, TP_THRESHOLD) THEN "TP"
                         ELSE IF FracLE(price_ratio, SL_THRESHOLD) THEN "SL"
                         ELSE "SAFE",
               price |-> current_price, buy_price |-> buy_price ]

\* get_holdings_to_sell_for_tp_sl: every position's class.
get_holdings_to_sell_for_tp_sl(pos, tech, pf) ==
    [c \in Coins |-> IF c \in DOMAIN pos THEN classify_holding(c, tech, pf)
                     ELSE NotEvaluated[c]]

\* execute_tp_sl_sells over positions_to_sell, from its i-th entry on.
RECURSIVE execute_tp_sl_sells(_, _, _, _, _, _)
execute_tp_sl_sells(st, to_sell, pos, ev, outs, i) ==
    IF i > Len(to_sell) THEN st
    ELSE LET coin == to_sell[i]
         IN  execute_tp_sl_sells(
                 sell_position(st, coin, pos[coin], ev[coin].class, outs[coin]),
                 to_sell, pos, ev, outs, i + 1)

\* ------------------------------------------------- the strong-sell phase
\* execute_sells that also sells the positions it finds at a risk exit.
RECURSIVE execute_sells_with_risk_exits(_, _, _, _, _)
execute_sells_with_risk_exits(st, pos, tech, outs, i) ==
    LET coins == InOrder(DOMAIN pos)
    IN  IF i > Len(coins) THEN st
        ELSE LET coin == coins[i]
                 skip == \/ coin \notin DOMAIN tech
                         \/ tech[coin].signal # SELL
                         \/ tech[coin].sell < STRONG_SELL_THRESHOLD
                 class == classify_holding(coin, tech, st.pf).class
             IN  execute_sells_with_risk_exits(
                     IF ~skip THEN sell_position(st, coin, pos[coin], "STRONG_SELL", outs[coin])
                     ELSE IF class \in {"TP", "SL"}
                          THEN sell_position(st, coin, pos[coin], class, outs[coin])
                          ELSE st,
                     pos, tech, outs, i + 1)

\* execute_sells over positions, from its i-th coin on: a position is
\* sold when its signal is SELL with at least STRONG_SELL_THRESHOLD votes.
RECURSIVE execute_sells(_, _, _, _, _)
execute_sells(st, pos, tech, outs, i) ==
    LET coins == InOrder(DOMAIN pos)
    IN  IF i > Len(coins) THEN st
        ELSE LET coin == coins[i]
                 skip == \/ coin \notin DOMAIN tech
                         \/ tech[coin].signal # SELL
                         \/ tech[coin].sell < STRONG_SELL_THRESHOLD
             IN  execute_sells(
                     IF skip THEN st
                     ELSE sell_position(st, coin, pos[coin], "STRONG_SELL", outs[coin]),
                     pos, tech, outs, i + 1)

\* ------------------------------------------------------ the funding phase
\* execute_weak_sell_rebalancing with a threshold one vote lower.
RECURSIVE execute_weak_sell_rebalancing_one_vote_less(_, _, _, _, _)
execute_weak_sell_rebalancing_one_vote_less(st, pos, tech, outs, i) ==
    LET coins == InOrder(DOMAIN pos)
    IN  IF i > Len(coins) THEN st
        ELSE LET coin == coins[i]
                 skip == \/ coin \notin DOMAIN tech
                         \/ tech[coin].sell < WEAK_SELL_THRESHOLD - 1
             IN  execute_weak_sell_rebalancing_one_vote_less(
                     IF skip THEN st
                     ELSE sell_position(st, coin, pos[coin], "WEAK_SELL", outs[coin]),
                     pos, tech, outs, i + 1)

\* execute_weak_sell_rebalancing over positions, from its i-th coin on: a
\* position is sold when it has at least WEAK_SELL_THRESHOLD sell votes.
RECURSIVE execute_weak_sell_rebalancing(_, _, _, _, _)
execute_weak_sell_rebalancing(st, pos, tech, outs, i) ==
    LET coins == InOrder(DOMAIN pos)
    IN  IF i > Len(coins) THEN st
        ELSE LET coin == coins[i]
                 skip == \/ coin \notin DOMAIN tech
                         \/ tech[coin].sell < WEAK_SELL_THRESHOLD
             IN  execute_weak_sell_rebalancing(
                     IF skip THEN st
                     ELSE sell_position(st, coin, pos[coin], "WEAK_SELL", outs[coin]),
                     pos, tech, outs, i + 1)

\* ---------------------------------------------------------- the ranker
\* The insertion of a sort by score, lowest first.
RECURSIVE InsertByScore_ascending(_, _, _)
InsertByScore_ascending(seq, c, tech) ==
    IF seq = <<>> THEN <<c>>
    ELSE IF tech[Head(seq)].score <= tech[c].score
         THEN <<Head(seq)>> \o InsertByScore_ascending(Tail(seq), c, tech)
         ELSE <<c>> \o seq

\* sorted(..., reverse=True) is stable: c goes after every coin of seq
\* whose score is at least its own.
RECURSIVE InsertByScore(_, _, _)
InsertByScore(seq, c, tech) ==
    IF seq = <<>> THEN <<c>>
    ELSE IF tech[Head(seq)].score >= tech[c].score
         THEN <<Head(seq)>> \o InsertByScore(Tail(seq), c, tech)
         ELSE <<c>> \o seq

RECURSIVE SortByScore(_, _, _)
SortByScore(coins, tech, i) ==
    IF i = 0 THEN <<>>
    ELSE InsertByScore(SortByScore(coins, tech, i - 1), coins[i], tech)

\* rank_pairs_by_technicals: the instruments by score, highest first.
rank_pairs_by_technicals(tech) ==
    LET coins == InOrder(DOMAIN tech)
    IN  SortByScore(coins, tech, Len(coins))

\* buy_signals with the vote threshold dropped.
buy_signals_any_votes(ranked_pairs, tech) ==
    SelectSeq(ranked_pairs, LAMBDA c : tech[c].signal = BUY)

\* execute_buys' buy_signals: the ranked instruments with signal BUY and at
\* least STRONG_SELL_THRESHOLD buy votes.
buy_signals(ranked_pairs, tech) ==
    SelectSeq(ranked_pairs,
              LAMBDA c : tech[c].signal = BUY /\ tech[c].buy >= STRONG_SELL_THRESHOLD)

\* ---------------------------------------------------------- the planner
\* exponential_weights[i] = 2 ** (num_buys - i - 1) for i = 0 .. num_buys-1
\* (here for rank i = 1 .. num_buys), and their sum.
exponential_weight(num_buys, i) == Pow(2, num_buys - i)

RECURSIVE total_weight(_, _)
total_weight(num_buys, i) ==
    IF i > num_buys THEN 0
    ELSE exponential_weight(num_buys, i) + total_weight(num_buys, i + 1)

\* The allocation with the largest weight taken for the total weight.
allocation_by_top_weight(num_buys, i, cash_to_invest) ==
    <<exponential_weight(num_buys, i) * cash_to_invest, exponential_weight(num_buys, 1)>>

\* The allocation with weights falling by one per rank.
allocation_linear(num_buys, i, cash_to_invest) ==
    <<(num_buys - i + 1) * cash_to_invest, (num_buys * (num_buys + 1)) \div 2>>

\* (exponential_weights[i] / total_weight) * cash_to_invest, as a fraction.
allocation(num_buys, i, cash_to_invest) ==
    <<exponential_weight(num_buys, i) * cash_to_invest, total_weight(num_buys, 1)>>

\* buy_candidate with an allocation of exactly $10 rejected as well.
buy_candidate_over_minimum(st, signals, tech, cash_to_invest, out, i) ==
    LET coin == signals[i]
        alloc == allocation(Len(signals), i, cash_to_invest)
        price == tech[coin].price
        precision == st.prec[coin]
        adjusted_quantity == TruncateFrac(alloc[1], alloc[2] * price, precision)
        r == place_buy(st, coin, adjusted_quantity, out)
        pf == IF r.ok /\ r.FilledQuantity > 0
              THEN update_portfolio_on_buy(st.pf, coin, r.FilledQuantity, price)
              ELSE st.pf
    IN  IF \/ alloc[1] <= MIN_TRADE_USD * QScale * alloc[2]
           \/ price <= 0
           \/ precision = NoRule
           \/ adjusted_quantity <= 0
        THEN st
        ELSE [st EXCEPT !.wallet = r.wallet,
                        !.cash = r.cash,
                        !.pf = pf,
                        !.disk = IF r.ok /\ r.FilledQuantity > 0 THEN pf ELSE @,
                        !.log = Append(@, Order(coin, "BUY", adjusted_quantity, "STRONG_BUY",
                                                0, price, r.ok, 0, r.FilledQuantity))]

\* execute_buys' loop body for the rank-i candidate (main.py:646-667).
buy_candidate(st, signals, tech, cash_to_invest, out, i) ==
    LET coin == signals[i]
        alloc == allocation(Len(signals), i, cash_to_invest)
        price == tech[coin].price
        precision == st.prec[coin]
        \* ideal_quantity = allocation / price, truncated
        adjusted_quantity == TruncateFrac(alloc[1], alloc[2] * price, precision)
        r == place_buy(st, coin, adjusted_quantity, out)
        pf == IF r.ok /\ r.FilledQuantity > 0
              THEN update_portfolio_on_buy(st.pf, coin, r.FilledQuantity, price)
              ELSE st.pf
    IN  IF \/ alloc[1] < MIN_TRADE_USD * QScale * alloc[2]
           \/ price <= 0
           \/ precision = NoRule
           \/ adjusted_quantity <= 0
        THEN st
        ELSE [st EXCEPT !.wallet = r.wallet,
                        !.cash = r.cash,
                        !.pf = pf,
                        !.disk = IF r.ok /\ r.FilledQuantity > 0 THEN pf ELSE @,
                        !.log = Append(@, Order(coin, "BUY", adjusted_quantity, "STRONG_BUY",
                                                0, price, r.ok, 0, r.FilledQuantity))]

\* execute_buys' loop over buy_signals, from rank i on.
RECURSIVE buy_loop(_, _, _, _, _, _)
buy_loop(st, signals, tech, cash_to_invest, outs, i) ==
    IF i > Len(signals) THEN st
    ELSE buy_loop(buy_candidate(st, signals, tech, cash_to_invest, outs[signals[i]], i),
                  signals, tech, cash_to_invest, outs, i + 1)

\* ------------------------------------------------------- the fast loop
\* quick_check_position with the cost basis cleared along with the quantity.
quick_check_position_clearing_cost(st, coin, quantity, ticker, out) ==
    IF \/ coin \notin DOMAIN st.pf
       \/ st.pf[coin].buy_price[1] <= 0
       \/ coin \notin DOMAIN ticker
       \/ ticker[coin] <= 0
    THEN [st EXCEPT !.ev[coin] = [class |-> "NODATA", price |-> 0, buy_price |-> <<0, 1>>]]
    ELSE LET current_price == ticker[coin]
             buy_price == st.pf[coin].buy_price
             price_ratio == IF buy_price[1] > 0
                            THEN <<current_price * buy_price[2], buy_price[1]>>
                            ELSE <<1, 1>>
             class == IF FracGE(price_ratio, TP_THRESHOLD) THEN "TP"
                      ELSE IF FracLE(price_ratio, SL_THRESHOLD) THEN "SL"
                      ELSE "SAFE"
             seen == [st EXCEPT !.ev[coin] = [class |-> class, price |-> current_price,
                                              buy_price |-> buy_price]]
             precision == st.prec[coin]
             adjusted_quantity == Truncate(quantity, precision)
             r == place_sell(st, coin, adjusted_quantity, out)
             pf == IF r.ok THEN [st.pf EXCEPT ![coin] = [buy_price |-> <<0, 1>>, quantity |-> 0]]
                   ELSE st.pf
         IN  IF class = "SAFE" \/ precision = NoRule \/ adjusted_quantity <= 0
             THEN seen
             ELSE [seen EXCEPT !.wallet = r.wallet,
                               !.cash = r.cash,
                               !.pf = pf,
                               !.disk = IF r.ok THEN pf ELSE @,
                               !.total_received = @ + r.UnitChange,
                               !.log = Append(@, Order(coin, "SELL", adjusted_quantity, class,
                                                       quantity, 0, r.ok, r.UnitChange, 0))]

\* quick_tp_sl_check_and_sell's loop body for one position
\* (main.py:170-248).
quick_check_position(st, coin, quantity, ticker, out) ==
    IF \/ coin \notin DOMAIN st.pf
       \/ st.pf[coin].buy_price[1] <= 0
       \/ coin \notin DOMAIN ticker
       \/ ticker[coin] <= 0
    THEN [st EXCEPT !.ev[coin] = [class |-> "NODATA", price |-> 0, buy_price |-> <<0, 1>>]]
    ELSE LET current_price == ticker[coin]
             buy_price == st.pf[coin].buy_price
             price_ratio == IF buy_price[1] > 0
                            THEN <<current_price * buy_price[2], buy_price[1]>>
                            ELSE <<1, 1>>
             class == IF FracGE(price_ratio, TP_THRESHOLD) THEN "TP"
                      ELSE IF FracLE(price_ratio, SL_THRESHOLD) THEN "SL"
                      ELSE "SAFE"
             seen == [st EXCEPT !.ev[coin] = [class |-> class, price |-> current_price,
                                              buy_price |-> buy_price]]
             precision == st.prec[coin]
             adjusted_quantity == Truncate(quantity, precision)
             r == place_sell(st, coin, adjusted_quantity, out)
             pf == IF r.ok THEN [st.pf EXCEPT ![coin].quantity = 0] ELSE st.pf
         IN  IF class = "SAFE" \/ precision = NoRule \/ adjusted_quantity <= 0
             THEN seen
             ELSE [seen EXCEPT !.wallet = r.wallet,
                               !.cash = r.cash,
                               !.pf = pf,
                               !.disk = IF r.ok THEN pf ELSE @,
                               !.total_received = @ + r.UnitChange,
                               !.log = Append(@, Order(coin, "SELL", adjusted_quantity, class,
                                                       quantity, 0, r.ok, r.UnitChange, 0))]

\* What get_ticker's Data holds for one instrument: a LastPrice or nothing.
NoQuote == [c \in {} |-> 0]
Quotes(coin) == {NoQuote} \cup {(coin :> p) : p \in TickerPrices}

\* The results of the loop body for one position, over the quotes the
\* ticker may carry for it and the venue's answers to its order.
quick_check_position_results(st, coin, quantity) ==
    { quick_check_position(st, coin, quantity, q, out)
        : q \in Quotes(coin), out \in SellOutcomes }

\* quick_tp_sl_check_and_sell's loop over positions, from its i-th coin on:
\* the states it can end in, from the states sts it can be in.
RECURSIVE quick_check_loop(_, _, _)
quick_check_loop(sts, pos, i) ==
    LET coins == InOrder(DOMAIN pos)
    IN  IF i > Len(coins) THEN sts
        ELSE quick_check_loop(
                 UNION { quick_check_position_results(st, coins[i], pos[coins[i]]) : st \in sts },
                 pos, i + 1)

\* quick_tp_sl_check_and_sell going on without ticker data.
quick_tp_sl_check_and_sell_without_ticker_test(balance_ok, ticker_ok) ==
    LET pos == get_current_positions(wallet)
    IN  IF ~balance_ok \/ DOMAIN pos = {}
        THEN {LoopState(0)}
        ELSE quick_check_loop({LoopState(0)}, pos, 1)

\* quick_tp_sl_check_and_sell: nothing is evaluated when the balance or the
\* ticker cannot be fetched or no position is held.
quick_tp_sl_check_and_sell(balance_ok, ticker_ok) ==
    LET pos == get_current_positions(wallet)
    IN  IF ~balance_ok \/ DOMAIN pos = {} \/ ~ticker_ok
        THEN {LoopState(0)}
        ELSE quick_check_loop({LoopState(0)}, pos, 1)

\* ============================================================ the machine
\* A ledger file an earlier run left for a wallet w: entries for coins it
\* bought and still holds, each with the quantity held.
LedgerFiles(w) ==
    { [c \in S |-> [buy_price |-> StartBuyPrice, quantity |-> w[c]]]
        : S \in SUBSET {c \in Coins : w[c] > 0} }

\* main() up to its loop (main.py:709-720): the rules are loaded, the
\* ledger is read, and the timer starts at the full-cycle interval.
Init ==
    /\ wallet \in [Coins -> UNION {StartQuantities[c] : c \in Coins}]
    /\ \A c \in Coins : wallet[c] \in StartQuantities[c]
    /\ cash \in StartCash
    /\ PAIR_PRECISION \in PrecisionTables
    /\ portfolio \in LedgerFiles(wallet)
    /\ disk = portfolio
    /\ pc = "head"
    /\ time_since_full_cycle = FULL_TRADING_CYCLE_INTERVAL
    /\ full_cycle_count = 0
    /\ quick_check_count = 0
    /\ positions = Empty
    /\ technicals = Empty
    /\ available_cash = 0
    /\ orders = <<>>
    /\ evals = NotEvaluated
    /\ plan = NoPlan

\* trading_cycle returns to main, which resets the timer (main.py:734);
\* the cycle's locals are gone.
ReturnFromCycle ==
    /\ pc' = "quick"
    /\ time_since_full_cycle' = 0
    /\ positions' = Empty
    /\ technicals' = Empty
    /\ available_cash' = 0

\* The loop's result without its writes of the ledger file.
Commit_unsaved(st) ==
    /\ wallet' = st.wallet
    /\ cash' = st.cash
    /\ portfolio' = st.pf
    /\ disk' = disk

\* A loop's result written back to the venue and the ledger.
Commit(st) ==
    /\ wallet' = st.wallet
    /\ cash' = st.cash
    /\ portfolio' = st.pf
    /\ disk' = st.disk

\* The cycle due only once the timer has passed the interval.
CycleDue_late == time_since_full_cycle > FULL_TRADING_CYCLE_INTERVAL

\* The head of main's loop (main.py:728): is a full cycle due?
CycleDue == time_since_full_cycle >= FULL_TRADING_CYCLE_INTERVAL

\* A due full cycle is entered (main.py:728-733) and trading_cycle does its
\* fetches (main.py:674-685): without a balance or without any technical
\* data the cycle is skipped.
CycleStartUpTo(cycles) ==
    /\ plan' = plan
    /\ pc = "head"
    /\ CycleDue
    /\ full_cycle_count < cycles
    /\ full_cycle_count' = full_cycle_count + 1
    /\ orders' = <<>>
    /\ evals' = NotEvaluated
    /\ \E balance_ok \in BOOLEAN, tech \in Technicals :
          IF ~balance_ok \/ DOMAIN tech = {}
          THEN ReturnFromCycle
          ELSE /\ available_cash' = cash
               /\ positions' = get_current_positions(wallet)
               /\ technicals' = tech
               /\ pc' = "risk"
               /\ UNCHANGED time_since_full_cycle
    /\ UNCHANGED <<wallet, cash, PAIR_PRECISION, portfolio, disk, quick_check_count>>

CycleStart == CycleStartUpTo(MaxFullCycles)

\* STEP 1 (main.py:688-690): the TP/SL evaluation and its sells.
RiskPhase ==
    /\ plan' = plan
    /\ pc = "risk"
    /\ \E outs \in [Coins -> SellOutcomes] :
          LET ev == get_holdings_to_sell_for_tp_sl(positions, technicals, portfolio)
              to_sell == InOrder({c \in Coins : ev[c].class \in {"TP", "SL"}})
              st == execute_tp_sl_sells(LoopState(0), to_sell, positions, ev, outs, 1)
          IN  /\ Commit(st)
              /\ evals' = ev
              /\ orders' = orders \o st.log
              /\ available_cash' = available_cash + st.total_received
    /\ pc' = "sells"
    /\ UNCHANGED <<PAIR_PRECISION, time_since_full_cycle, full_cycle_count,
                   quick_check_count, positions, technicals>>

\* STEP 2 (main.py:693-699): the strong-sell phase.
StrongSellPhase ==
    /\ plan' = plan
    /\ pc = "sells"
    /\ \E outs \in [Coins -> SellOutcomes] :
          LET st == execute_sells(LoopState(0), positions, technicals, outs, 1)
          IN  /\ Commit(st)
              /\ orders' = orders \o st.log
              /\ available_cash' = available_cash + st.total_received
    /\ pc' = "buys"
    /\ UNCHANGED <<PAIR_PRECISION, time_since_full_cycle, full_cycle_count,
                   quick_check_count, positions, technicals, evals>>

\* execute_buys testing the deployable cash before the funding sells.
FundingPhase_after_cash_check ==
    /\ plan' = plan
    /\ pc = "buys"
    /\ IF \/ buy_signals(rank_pairs_by_technicals(technicals), technicals) = <<>>
          \/ available_cash - RESERVE_CASH * QScale <= MIN_TRADE_USD * QScale
       THEN /\ ReturnFromCycle
            /\ UNCHANGED <<wallet, cash, portfolio, disk, orders>>
       ELSE /\ \E outs \in [Coins -> SellOutcomes] :
                  LET st == execute_weak_sell_rebalancing(LoopState(0), positions,
                                                          technicals, outs, 1)
                  IN  /\ Commit(st)
                      /\ orders' = orders \o st.log
                      /\ available_cash' = available_cash + st.total_received
            /\ pc' = "alloc"
            /\ UNCHANGED <<time_since_full_cycle, positions, technicals>>
    /\ UNCHANGED <<PAIR_PRECISION, full_cycle_count, quick_check_count, evals>>

\* execute_buys up to the funding sells (main.py:621-633): without a strong
\* buy it returns at once, otherwise the weak-sell positions are sold.
FundingPhase ==
    /\ plan' = plan
    /\ pc = "buys"
    /\ IF buy_signals(rank_pairs_by_technicals(technicals), technicals) = <<>>
       THEN /\ ReturnFromCycle
            /\ UNCHANGED <<wallet, cash, portfolio, disk, orders>>
       ELSE /\ \E outs \in [Coins -> SellOutcomes] :
                  LET st == execute_weak_sell_rebalancing(LoopState(0), positions,
                                                          technicals, outs, 1)
                  IN  /\ Commit(st)
                      /\ orders' = orders \o st.log
                      /\ available_cash' = available_cash + st.total_received
            /\ pc' = "alloc"
            /\ UNCHANGED <<time_since_full_cycle, positions, technicals>>
    /\ UNCHANGED <<PAIR_PRECISION, full_cycle_count, quick_check_count, evals>>

\* execute_buys from the reserve check on (main.py:635-667).
BuyPhase ==
    /\ plan' = plan
    /\ pc = "alloc"
    /\ LET cash_to_invest == available_cash - RESERVE_CASH * QScale
       IN  IF cash_to_invest <= MIN_TRADE_USD * QScale
           THEN /\ ReturnFromCycle
                /\ UNCHANGED <<wallet, cash, portfolio, disk, orders>>
           ELSE /\ \E outs \in [Coins -> BuyOutcomes] :
                      LET signals == buy_signals(rank_pairs_by_technicals(technicals),
                                                 technicals)
                          st == buy_loop(LoopState(0), signals, technicals,
                                         cash_to_invest, outs, 1)
                      IN  /\ Commit(st)
                          /\ orders' = orders \o st.log
                /\ pc' = "final"
                /\ UNCHANGED <<time_since_full_cycle, positions, technicals, available_cash>>
    /\ UNCHANGED <<PAIR_PRECISION, full_cycle_count, quick_check_count, evals>>

\* The cycle's closing balance query (main.py:705-707) and its return.
CycleEnd ==
    /\ plan' = plan
    /\ pc = "final"
    /\ ReturnFromCycle
    /\ UNCHANGED <<wallet, cash, PAIR_PRECISION, portfolio, disk, full_cycle_count,
                   quick_check_count, orders, evals>>

\* The fast check, after the cycle or at once when none is due, and the
\* rest of the iteration (main.py:737-747).
QuickCheckUpTo(checks) ==
    /\ plan' = plan
    /\ pc = "quick" \/ (pc = "head" /\ ~CycleDue)
    /\ quick_check_count < checks
    /\ quick_check_count' = quick_check_count + 1
    /\ \E balance_ok \in BOOLEAN, ticker_ok \in BOOLEAN :
          \E st \in quick_tp_sl_check_and_sell(balance_ok, ticker_ok) :
              /\ Commit(st)
              /\ orders' = st.log
              /\ evals' = st.ev
    /\ time_since_full_cycle' = time_since_full_cycle + QUICK_TP_SL_CHECK_INTERVAL
    /\ pc' = "head"
    /\ UNCHANGED <<PAIR_PRECISION, full_cycle_count, positions, technicals, available_cash>>

QuickCheck == QuickCheckUpTo(MaxQuickChecks)

\* The handler starting the wait for the next full cycle afresh.
UnhandledErrorUpTo_resetting_timer(cycles, checks) ==
    /\ plan' = plan
    /\ \/ /\ pc = "head"
          /\ CycleDue
          /\ full_cycle_count < cycles
          /\ full_cycle_count' = full_cycle_count + 1
          /\ UNCHANGED quick_check_count
          /\ orders' = <<>>
          /\ evals' = NotEvaluated
       \/ /\ pc \in {"risk", "final"}
          /\ UNCHANGED <<full_cycle_count, quick_check_count, orders, evals>>
       \/ /\ pc = "quick" \/ (pc = "head" /\ ~CycleDue)
          /\ quick_check_count < checks
          /\ quick_check_count' = quick_check_count + 1
          /\ UNCHANGED full_cycle_count
          /\ orders' = <<>>
          /\ evals' = NotEvaluated
    /\ pc' = "head"
    /\ positions' = Empty
    /\ technicals' = Empty
    /\ available_cash' = 0
    /\ time_since_full_cycle' = 0
    /\ UNCHANGED <<wallet, cash, PAIR_PRECISION, portfolio, disk>>

\* The handler ending the process instead of resuming the loop.
UnhandledErrorUpTo_terminating(cycles, checks) ==
    /\ plan' = plan
    /\ \/ /\ pc = "head"
          /\ CycleDue
          /\ full_cycle_count < cycles
          /\ full_cycle_count' = full_cycle_count + 1
          /\ UNCHANGED quick_check_count
          /\ orders' = <<>>
          /\ evals' = NotEvaluated
       \/ /\ pc \in {"risk", "final"}
          /\ UNCHANGED <<full_cycle_count, quick_check_count, orders, evals>>
       \/ /\ pc = "quick" \/ (pc = "head" /\ ~CycleDue)
          /\ quick_check_count < checks
          /\ quick_check_count' = quick_check_count + 1
          /\ UNCHANGED full_cycle_count
          /\ orders' = <<>>
          /\ evals' = NotEvaluated
    /\ pc' = "stopped"
    /\ positions' = Empty
    /\ technicals' = Empty
    /\ available_cash' = 0
    /\ UNCHANGED <<wallet, cash, PAIR_PRECISION, portfolio, disk, time_since_full_cycle>>

\* An exception no callee handles, raised by one of the fetches (get_balance
\* at main.py:674, 705 and 144, get_ticker at main.py:101 and 157): main
\* logs it, sleeps and starts its next iteration (main.py:752-755).
UnhandledErrorUpTo(cycles, checks) ==
    /\ plan' = plan
    /\ \/ /\ pc = "head"
          /\ CycleDue
          /\ full_cycle_count < cycles
          /\ full_cycle_count' = full_cycle_count + 1
          /\ UNCHANGED quick_check_count
          /\ orders' = <<>>
          /\ evals' = NotEvaluated
       \/ /\ pc \in {"risk", "final"}
          /\ UNCHANGED <<full_cycle_count, quick_check_count, orders, evals>>
       \/ /\ pc = "quick" \/ (pc = "head" /\ ~CycleDue)
          /\ quick_check_count < checks
          /\ quick_check_count' = quick_check_count + 1
          /\ UNCHANGED full_cycle_count
          /\ orders' = <<>>
          /\ evals' = NotEvaluated
    /\ pc' = "head"
    /\ positions' = Empty
    /\ technicals' = Empty
    /\ available_cash' = 0
    /\ UNCHANGED <<wallet, cash, PAIR_PRECISION, portfolio, disk, time_since_full_cycle>>

UnhandledError == UnhandledErrorUpTo(MaxFullCycles, MaxQuickChecks)

Next ==
    \/ CycleStart
    \/ RiskPhase
    \/ StrongSellPhase
    \/ FundingPhase
    \/ BuyPhase
    \/ CycleEnd
    \/ QuickCheck
    \/ UnhandledError

Spec == Init /\ [][Next]_vars

\* ------------------------------------------- the scheduler over many ticks
\* main() started on an account that holds no coin, and run without an
\* exception reaching its handler.
SchedInit ==
    /\ Init
    /\ \A c \in Coins : wallet[c] = 0

SchedCycle == CycleStartUpTo(SchedCycles)
SchedQuickCheck == QuickCheckUpTo(SchedTicks)

SchedNext ==
    \/ SchedCycle
    \/ RiskPhase
    \/ StrongSellPhase
    \/ FundingPhase
    \/ BuyPhase
    \/ CycleEnd
    \/ SchedQuickCheck

\* main's loop is sequential code with bounded waits: a step that can be
\* taken is taken.
SchedSpec == SchedInit /\ [][SchedNext]_vars /\ WF_vars(SchedNext)

\* --------------------------------------- the scheduler past an exception
ErrCycle == CycleStartUpTo(ErrCycles)
ErrQuickCheck == QuickCheckUpTo(ErrChecks)
ErrHandler == UnhandledErrorUpTo(ErrCycles, ErrChecks)

ErrNext ==
    \/ ErrCycle
    \/ RiskPhase
    \/ StrongSellPhase
    \/ FundingPhase
    \/ BuyPhase
    \/ CycleEnd
    \/ ErrQuickCheck
    \/ ErrHandler

ErrSpec == SchedInit /\ [][ErrNext]_vars /\ WF_vars(ErrNext)

\* ------------------------- the timer from one due cycle to the next
\* main on an account with nothing held and $30 above the reserve.
TimerInit ==
    /\ SchedInit
    /\ cash = (RESERVE_CASH + 30) * QScale

TimerCycle == CycleStartUpTo(TimerCycles)
TimerQuickCheck == QuickCheckUpTo(TimerTicks)
TimerHandler == UnhandledErrorUpTo(TimerCycles, TimerTicks)

TimerNext ==
    \/ TimerCycle
    \/ RiskPhase
    \/ StrongSellPhase
    \/ FundingPhase
    \/ BuyPhase
    \/ CycleEnd
    \/ TimerQuickCheck
    \/ TimerHandler

TimerSpec == TimerInit /\ [][TimerNext]_vars

\* ------------------------------------------------- the planner on its own
\* execute_buys at main.py:642 with num_buys candidates and cash_to_invest
\* above the $10 minimum (main.py:636), on an account with nothing in it.
PlanCash == {MIN_TRADE_USD * QScale + k : k \in 1 .. MaxPlanCash}

PlanInit ==
    /\ wallet = [c \in Coins |-> 0]
    /\ cash = 0
    /\ PAIR_PRECISION \in PrecisionTables
    /\ portfolio = Empty
    /\ disk = Empty
    /\ pc = "plan"
    /\ time_since_full_cycle = FULL_TRADING_CYCLE_INTERVAL
    /\ full_cycle_count = 1
    /\ quick_check_count = 0
    /\ positions = Empty
    /\ technicals = Empty
    /\ available_cash = 0
    /\ orders = <<>>
    /\ evals = NotEvaluated
    /\ \E n \in 1 .. MaxBuys, c \in PlanCash :
          plan = [num_buys |-> n, cash_to_invest |-> c, i |-> 0, allocations |-> <<>>]

\* One pass of the loop at main.py:645-646: the next rank's allocation.
PlanStep ==
    /\ pc = "plan"
    /\ plan.i < plan.num_buys
    /\ plan' = [plan EXCEPT !.i = @ + 1,
                            !.allocations = Append(@, allocation(plan.num_buys, plan.i + 1,
                                                                plan.cash_to_invest))]
    /\ UNCHANGED <<wallet, cash, PAIR_PRECISION, portfolio, disk, pc, time_since_full_cycle,
                   full_cycle_count, quick_check_count, positions, technicals,
                   available_cash, orders, evals>>

PlanNext == PlanStep

PlanSpec == PlanInit /\ [][PlanNext]_vars

\* ================================================================ claims
\* The orders the step from the current state appends to the log: a phase
\* of the cycle extends the cycle's log, a fast check starts its own.
Appended ==
    IF pc \in {"risk", "sells", "buys", "alloc"}
    THEN SubSeq(orders', Len(orders) + 1, Len(orders'))
    ELSE IF pc \in {"head", "quick"} THEN orders' ELSE <<>>

Indexes(seq) == 1 .. Len(seq)

\* The spec's risk class of a price against a cost basis n/d > 0, with the
\* thresholds 1.06 and 0.97 cleared of their denominators.
RiskClass(price, cost) ==
    IF 100 * price * cost[2] >= 106 * cost[1] THEN "TP"
    ELSE IF 100 * price * cost[2] <= 97 * cost[1] THEN "SL"
    ELSE "SAFE"

\* C1: every held position evaluated with a cost basis > 0 and a price > 0,
\* in the full cycle's risk phase and in the fast loop, is classified
\* TAKE_PROFIT when price/cost >= 1.06, STOP_LOSS when price/cost <= 0.97
\* and SAFE strictly in between; and in the full cycle every held position
\* with a ledger entry and a technical entry of that kind is evaluated.
C1_Classification ==
    /\ \A c \in Coins :
          (evals[c].class \in {"SAFE", "TP", "SL"} /\ evals[c].buy_price[1] > 0
                /\ evals[c].price > 0)
             => evals[c].class = RiskClass(evals[c].price, evals[c].buy_price)
    /\ pc = "sells" =>
          \A c \in DOMAIN positions :
             (c \in DOMAIN portfolio /\ c \in DOMAIN technicals
                   /\ portfolio[c].buy_price[1] > 0 /\ technicals[c].price > 0)
                => evals[c].class = RiskClass(technicals[c].price, portfolio[c].buy_price)

\* C1's case: a risk phase that met both inclusive boundaries, one position
\* at exactly 1.06 of its cost and the other at exactly 0.97.
C1_Witness ==
    /\ pc = "sells"
    /\ \E c, d \in Coins :
          /\ evals[c].class = "TP" /\ 100 * evals[c].price = 106 * 100
          /\ evals[c].buy_price = <<100, 1>>
          /\ evals[d].class = "SL" /\ 100 * evals[d].price = 97 * 100
          /\ evals[d].buy_price = <<100, 1>>

\* C2: no risk evaluation classifies a held position that has no ledger
\* entry, a cost basis <= 0, no price, or a price <= 0, and none submits a
\* risk-exit sell for it.
C2_NoDataNeverClassified ==
    /\ \A c \in Coins :
          evals[c].class \in {"SAFE", "TP", "SL"}
             => evals[c].buy_price[1] > 0 /\ evals[c].price > 0
    /\ \A i \in Indexes(orders) :
          orders[i].reason \in {"TP", "SL"}
             => evals[orders[i].coin].buy_price[1] > 0 /\ evals[orders[i].coin].price > 0

\* C3: within one full cycle, and within one fast check, at most one sell
\* order is submitted per asset.
C3_OneSellPerAsset ==
    \A i, j \in Indexes(orders) :
       (i < j /\ orders[i].side = "SELL" /\ orders[j].side = "SELL")
          => orders[i].coin # orders[j].coin

\* C4: every ledger entry has quantity >= 0.
C4_QuantityNonNegative ==
    \A c \in DOMAIN portfolio : portfolio[c].quantity >= 0

\* C4's case: after a full cycle that bought and a fast check that sold, the
\* ledger holds both a zeroed entry and an entry with a merged quantity.
C4_Witness ==
    /\ full_cycle_count = 1 /\ quick_check_count = 1 /\ pc = "head"
    /\ \E i \in Indexes(orders) : orders[i].ok
    /\ \E c, d \in DOMAIN portfolio :
          /\ portfolio[c].quantity = 0
          /\ portfolio[d].quantity > 0 /\ portfolio[d].buy_price # StartBuyPrice

\* The ledger entry of a coin before a buy: the one it has, or the fresh one
\* update_portfolio_on_buy starts from.
EntryOf(pf, c) == IF c \in DOMAIN pf THEN pf[c] ELSE [buy_price |-> <<0, 1>>, quantity |-> 0]

\* The buy fills of the step: appended BUY orders reporting a filled
\* quantity > 0.
BuyFills == { i \in Indexes(Appended) : Appended[i].side = "BUY" /\ Appended[i].ok
                                         /\ Appended[i].filled > 0 }

\* C5: a buy fill of q > 0 at price p sets the coin's ledger quantity to
\* old_qty + q and its average cost to (old_cost*old_qty + p*q)/(old_qty+q);
\* a step changes no entry of a coin it fills no buy for, unless it sells it.
C5_BuyStep ==
    /\ \A i \in BuyFills :
          LET o == Appended[i]
              old == EntryOf(portfolio, o.coin)
              new == portfolio'[o.coin]
          IN  /\ o.coin \in DOMAIN portfolio'
              /\ new.quantity = old.quantity + o.filled
              /\ new.buy_price[2] > 0
              /\ new.buy_price[1] * old.buy_price[2] * (old.quantity + o.filled)
                    = new.buy_price[2] * (old.buy_price[1] * old.quantity
                                            + o.price * o.filled * old.buy_price[2])
    /\ \A c \in Coins :
          (\A i \in BuyFills : Appended[i].coin # c)
             => /\ c \in DOMAIN portfolio' <=> c \in DOMAIN portfolio
                /\ c \in DOMAIN portfolio =>
                      \/ portfolio'[c] = portfolio[c]
                      \/ /\ portfolio'[c] = [portfolio[c] EXCEPT !.quantity = 0]
                         /\ \E i \in Indexes(Appended) :
                               Appended[i].coin = c /\ Appended[i].side = "SELL"

C6_BuyStep ==
    \A i \in BuyFills :
       LET o == Appended[i]
       IN  (o.coin \in DOMAIN portfolio /\ portfolio[o.coin].quantity = 0)
              => portfolio'[o.coin] = [buy_price |-> <<o.price, 1>>, quantity |-> o.filled]

Floored(held, p) == held - (held % (QScale \div Pow(10, p)))

\* C7: a TAKE_PROFIT or STOP_LOSS sell that succeeds, in the risk phase or
\* in the fast loop, was for the whole balance held floor-truncated to the
\* pair's precision, and the step leaves the coin's ledger quantity at 0.
C7_RiskStep ==
    \A i \in Indexes(Appended) :
       LET o == Appended[i]
       IN  (o.reason \in {"TP", "SL"} /\ o.ok)
              => /\ o.side = "SELL"
                 /\ o.held = wallet[o.coin]
                 /\ PAIR_PRECISION[o.coin] # NoRule
                 /\ o.quantity = Floored(o.held, PAIR_PRECISION[o.coin])
                 /\ o.coin \in DOMAIN portfolio'
                 /\ portfolio'[o.coin].quantity = 0

C7_RiskSellEmptiesPosition == [][C7_RiskStep]_vars

\* C7's case: a take-profit sell of 1.5 coins at precision 0 sold 1 coin and
\* zeroed the ledger quantity.
C7_Witness ==
    /\ pc = "sells"
    /\ \E i \in Indexes(orders) :
          /\ orders[i].reason = "TP" /\ orders[i].ok
          /\ orders[i].quantity < orders[i].held
          /\ portfolio[orders[i].coin].quantity = 0

\* C8: no step removes a ledger entry, and a sell that succeeds for a coin
\* with an entry leaves the entry in place with quantity 0.
C8_Step ==
    /\ \A c \in DOMAIN portfolio : c \in DOMAIN portfolio'
    /\ \A i \in Indexes(Appended) :
          LET o == Appended[i]
          IN  (o.side = "SELL" /\ o.ok /\ o.coin \in DOMAIN portfolio)
                 => /\ o.coin \in DOMAIN portfolio'
                    /\ portfolio'[o.coin].buy_price = portfolio[o.coin].buy_price
                    /\ portfolio'[o.coin].quantity = 0

C9_Step ==
    \A c \in DOMAIN portfolio :
       portfolio[c].quantity = 0
          => /\ \A i \in Indexes(Appended) : Appended[i].coin = c => Appended[i].side # "SELL"
             /\ evals' # evals => evals'[c].class \in {"NONE", "NODATA"}

C9_ZeroQuantityExcluded == [][C9_Step]_vars

\* The cost of the appended buy orders at their snapshot prices, from the
\* i-th on.
RECURSIVE BuyCost(_, _)
BuyCost(seq, i) ==
    IF i > Len(seq) THEN 0
    ELSE (IF seq[i].side = "BUY" THEN seq[i].quantity * seq[i].price ELSE 0) + BuyCost(seq, i + 1)

\* C10: buy orders are submitted by the buy phase only, and there the sum
\* of order quantity * snapshot price is at most available_cash -
\* RESERVE_CASH, with no order at all when that is zero or negative.
C10_Step ==
    LET deployable == available_cash - 20000 * QScale
    IN  /\ (\E i \in Indexes(Appended) : Appended[i].side = "BUY") => pc = "alloc"
        /\ pc = "alloc" =>
              /\ BuyCost(Appended, 1) <= IF deployable > 0 THEN deployable ELSE 0
              /\ deployable <= 0 => Appended = <<>>

C10_ReserveFloor == [][C10_Step]_vars

\* C10's case: a buy phase that submitted two buy orders.
C10_Witness ==
    /\ pc = "final"
    /\ \E i, j \in Indexes(orders) :
          /\ i < j /\ orders[i].side = "BUY" /\ orders[j].side = "BUY"
          /\ orders[i].ok /\ orders[j].ok

\* The strong-buy candidates of the cycle's snapshot: signal BUY with at
\* least 13 buy votes.
Candidates ==
    {c \in DOMAIN technicals : technicals[c].signal = "BUY" /\ technicals[c].buy >= 13}

\* C11: a weak-sell (funding) order is submitted only by the funding phase
\* of a cycle whose snapshot has a strong-buy candidate; without one the
\* funding phase submits nothing and leaves every balance and every ledger
\* entry as it was.
C11_Step ==
    /\ \A i \in Indexes(Appended) :
          Appended[i].reason = "WEAK_SELL" => pc = "buys" /\ Candidates # {}
    /\ (pc = "buys" /\ Candidates = {})
          => /\ Appended = <<>>
             /\ wallet' = wallet /\ cash' = cash
             /\ portfolio' = portfolio /\ disk' = disk

C11_NoFundingWithoutCandidate == [][C11_Step]_vars

\* C11's case: the cycle reaches execute_buys with no strong-buy candidate
\* while a position with a ledger entry meets the weak-sell condition only.
C11_Witness ==
    /\ pc = "buys"
    /\ Candidates = {}
    /\ \E c \in DOMAIN positions :
          /\ wallet[c] > 0
          /\ c \in DOMAIN portfolio /\ portfolio[c].quantity > 0
          /\ c \in DOMAIN technicals
          /\ technicals[c].sell >= 8
          /\ technicals[c].signal # "SELL"
          /\ PAIR_PRECISION[c] # NoRule

\* The sum of the fractions of seq over the common denominator d, as a
\* numerator.
RECURSIVE SumOver(_, _, _)
SumOver(seq, d, k) ==
    IF k > Len(seq) THEN 0
    ELSE (seq[k][1] * d) \div seq[k][2] + SumOver(seq, d, k + 1)

\* C12: the planner's allocation for the k-th of N candidates (rank k - 1)
\* is cash_to_invest * 2^(N-k) / (2^N - 1), for N = 3 the 4/7, 2/7 and 1/7
\* of it, and the N allocations sum to cash_to_invest exactly.
C12_ExponentialAllocation ==
    pc = "plan" =>
       LET N == plan.num_buys
           cti == plan.cash_to_invest
           a == plan.allocations
           D == Pow(2, N) - 1
       IN  /\ \A k \in Indexes(a) :
                /\ a[k][2] > 0
                /\ a[k][1] * D = cti * Pow(2, N - k) * a[k][2]
                /\ N = 3 => 7 * a[k][1] = <<4, 2, 1>>[k] * cti * a[k][2]
           /\ Len(a) = N
                => /\ \A k \in Indexes(a) : (a[k][1] * D) % a[k][2] = 0
                   /\ SumOver(a, D, 1) = cti * D

\* C12's case: three candidates planned for an amount 7 does not divide.
C12_Witness ==
    /\ pc = "plan"
    /\ plan.num_buys = 3
    /\ Len(plan.allocations) = 3
    /\ plan.cash_to_invest % 7 # 0

\* The rank (1 = best) of candidate c among the candidates: those with a
\* higher score, or the same score and an earlier place in the snapshot,
\* come before it.
Before(d, c) ==
    \/ technicals[d].score > technicals[c].score
    \/ /\ technicals[d].score = technicals[c].score
       /\ \E m, n \in Indexes(CoinOrder) : m < n /\ CoinOrder[m] = d /\ CoinOrder[n] = c
RankOf(c) == 1 + Cardinality({d \in Candidates \ {c} : Before(d, c)})

\* The planner's share of candidate c: numerator and denominator of
\* cash_to_invest * 2^(N-k) / (2^N - 1), in money units.
ShareOf(c, cti) ==
    <<cti * Pow(2, Cardinality(Candidates) - RankOf(c)), Pow(2, Cardinality(Candidates)) - 1>>

\* The quantity that share buys at the snapshot price, floored to p places.
SharesBought(c, cti, p) ==
    LET unit == QScale \div Pow(10, p)
        a == ShareOf(c, cti)
    IN  (a[1] \div (a[2] * technicals[c].price * unit)) * unit

\* The rejection rules for candidate c, each on its own.
Accepted(c, cti) ==
    /\ cti > 10 * QScale
    /\ ShareOf(c, cti)[1] >= 10 * QScale * ShareOf(c, cti)[2]
    /\ technicals[c].price > 0
    /\ PAIR_PRECISION[c] # NoRule
    /\ SharesBought(c, cti, PAIR_PRECISION[c]) > 0

\* C13: the buy phase submits a buy order for a candidate exactly when its
\* allocation is at least $10, its price is > 0, its pair has a precision
\* rule and its truncated quantity is > 0; the order is for the quantity
\* the candidate's own share buys, whichever other candidates are skipped.
C13_Step ==
    pc = "alloc" =>
       LET cti == available_cash - 20000 * QScale
           buys == {i \in Indexes(Appended) : Appended[i].side = "BUY"}
       IN  /\ \A i \in buys : Appended[i].coin \in Candidates
           /\ \A c \in Candidates :
                 /\ Accepted(c, cti) <=> \E i \in buys : Appended[i].coin = c
                 /\ \A i, j \in buys :
                       (Appended[i].coin = c /\ Appended[j].coin = c) => i = j
                 /\ \A i \in buys :
                       Appended[i].coin = c
                          => Appended[i].quantity = SharesBought(c, cti, PAIR_PRECISION[c])

PhaseOf(o) ==
    IF o.reason \in {"TP", "SL"} THEN 1
    ELSE IF o.reason = "STRONG_SELL" THEN 2
    ELSE IF o.reason = "WEAK_SELL" THEN 3
    ELSE 4

\* C14: the orders of a cycle are issued in phase order: risk exits, then
\* strong sells, then funding sells, then buys, and no phase's orders
\* resume after a later phase has issued one; each phase issues them from
\* its own place in the cycle.
C14_PhaseOrder ==
    /\ \A i, j \in Indexes(orders) :
          i < j => /\ PhaseOf(orders[i]) <= PhaseOf(orders[j])
                   /\ PhaseOf(orders[j]) = 4 <=> orders[j].side = "BUY"
    /\ \A i \in Indexes(orders) :
          /\ pc = "risk" => FALSE
          /\ pc = "sells" => PhaseOf(orders[i]) <= 1
          /\ pc = "buys" => PhaseOf(orders[i]) <= 2
          /\ pc = "alloc" => PhaseOf(orders[i]) <= 3

\* C14's case: a cycle that issued orders in all four phases.
C14_Witness ==
    /\ pc = "final"
    /\ \E i, j, k, l \in Indexes(orders) :
          /\ i < j /\ j < k /\ k < l
          /\ PhaseOf(orders[i]) = 1 /\ PhaseOf(orders[j]) = 2
          /\ PhaseOf(orders[k]) = 3 /\ PhaseOf(orders[l]) = 4

\* C15: a fast check submits only SELL orders, each for a position it has
\* just classified TAKE_PROFIT or STOP_LOSS and for that reason; it buys
\* nothing, and in the ledger it only sets the quantity of an asset it sold
\* to 0.
C15_Step ==
    quick_check_count' # quick_check_count =>
       /\ \A i \in Indexes(orders') :
             LET o == orders'[i]
             IN  /\ o.side = "SELL"
                 /\ o.reason \in {"TP", "SL"}
                 /\ evals'[o.coin].class = o.reason
       /\ DOMAIN portfolio' = DOMAIN portfolio
       /\ \A c \in DOMAIN portfolio :
             \/ portfolio'[c] = portfolio[c]
             \/ /\ portfolio'[c] = [portfolio[c] EXCEPT !.quantity = 0]
                /\ \E i \in Indexes(orders') : orders'[i].coin = c /\ orders'[i].ok
       /\ \A c \in Coins : wallet'[c] <= wallet[c]
       /\ cash' >= cash

C15_FastLoopOnlyRiskExits == [][C15_Step]_vars

\* C15's case: a fast check sold one position at a stop loss and left the
\* other one, which it found safe, with its entry as it was.
C15_Witness ==
    /\ pc = "head"
    /\ quick_check_count = 1
    /\ \E c, d \in DOMAIN portfolio :
          /\ c # d
          /\ evals[c].class = "SL" /\ portfolio[c].quantity = 0
          /\ \E i \in Indexes(orders) : orders[i].coin = c /\ orders[i].ok
          /\ evals[d].class = "SAFE" /\ portfolio[d].quantity > 0 /\ wallet[d] > 0

\* Where the scheduler must stand after n fast checks when full cycles run
\* on ticks 1, 41, 81, ...: the number of cycles begun so far.
CyclesBy(n) == IF n = 0 THEN 0 ELSE ((n - 1) \div 40) + 1

C16_Cadence ==
    /\ time_since_full_cycle % 15 = 0
    /\ pc = "head"
          => /\ full_cycle_count = CyclesBy(quick_check_count)
             /\ time_since_full_cycle
                   = IF quick_check_count = 0 THEN 600
                     ELSE 15 * (((quick_check_count - 1) % 40) + 1)
    /\ pc # "head"
          => /\ quick_check_count % 40 = 0
             /\ full_cycle_count = (quick_check_count \div 40) + 1

C17_Step ==
    /\ full_cycle_count' # full_cycle_count
          => /\ pc = "head"
             /\ quick_check_count' = quick_check_count
             /\ pc' # "head"
    /\ pc \notin {"head", "quick"}
          => /\ quick_check_count' = quick_check_count
             /\ full_cycle_count' = full_cycle_count
             /\ pc' # "head"
    /\ pc = "quick"
          => /\ pc' = "head"
             /\ quick_check_count' = quick_check_count + 1
             /\ full_cycle_count' = full_cycle_count
             /\ time_since_full_cycle' = 15

C17_CycleThenFastCheck == [][C17_Step]_vars

\* A step that abandons what the tick was doing: it leaves a cycle for
\* somewhere else than its next phase or its return, triggers a cycle that
\* is neither entered nor returned from, or counts a fast check without
\* the timer update that follows it.
Abandons ==
    \/ /\ pc \notin {"head", "quick"}
       /\ pc' \notin {"risk", "sells", "buys", "alloc", "final", "quick"}
    \/ /\ full_cycle_count' # full_cycle_count
       /\ pc' \notin {"risk", "quick"}
    \/ /\ quick_check_count' # quick_check_count
       /\ time_since_full_cycle' = time_since_full_cycle

C18_Step ==
    Abandons => /\ pc' = "head"
                /\ wallet' = wallet /\ cash' = cash
                /\ portfolio' = portfolio /\ disk' = disk
                /\ time_since_full_cycle' = time_since_full_cycle

\* C18: an exception inside a full cycle or a fast check puts main back at
\* the head of its loop with the ledger and the timer as they were; the
\* scheduler is never anywhere but in its loop, and it never comes to rest
\* before a cap on its counters stops it.
C18_ExceptionResumes ==
    /\ [](pc \in {"head", "risk", "sells", "buys", "alloc", "final", "quick"})
    /\ [][C18_Step]_vars
    /\ <>(full_cycle_count = ErrCycles \/ quick_check_count = ErrChecks)

\* C18's case: the first full cycle was abandoned before its fast check
\* and the loop has gone on to run a second one.
C18_Witness ==
    /\ full_cycle_count = 2
    /\ quick_check_count = 0
    /\ pc = "sells"

\* The coins every order of the step failed for.
FailedOnly ==
    {c \in Coins : /\ \E i \in Indexes(Appended) : Appended[i].coin = c
                   /\ \A i \in Indexes(Appended) : Appended[i].coin = c => ~Appended[i].ok}

\* C19: an order that fails leaves the asset's ledger entry, its persisted
\* entry and its balance as they were and credits nothing to the running
\* available cash, which grows by what the venue paid for fills only; the
\* risk phase still submits the order of every other position it is to
\* sell.
C19_Step ==
    /\ \A c \in FailedOnly :
          /\ wallet'[c] = wallet[c]
          /\ c \in DOMAIN portfolio' <=> c \in DOMAIN portfolio
          /\ c \in DOMAIN portfolio => portfolio'[c] = portfolio[c]
          /\ c \in DOMAIN disk' <=> c \in DOMAIN disk
          /\ c \in DOMAIN disk => disk'[c] = disk[c]
    /\ pc \in {"risk", "sells", "buys"} /\ pc' # "head"
          => /\ pc' # "quick" => available_cash' - available_cash = cash' - cash
             /\ (\A i \in Indexes(Appended) : ~Appended[i].ok) => cash' = cash
    /\ pc = "risk" /\ pc' = "sells"
          => \A c \in DOMAIN positions :
                (/\ evals'[c].class \in {"TP", "SL"}
                 /\ PAIR_PRECISION[c] # NoRule
                 /\ Floored(positions[c], PAIR_PRECISION[c]) > 0)
                   => \E i \in Indexes(Appended) : Appended[i].coin = c

C19_FailedOrderChangesNothing == [][C19_Step]_vars

\* C19's case: the risk phase's first sell failed, leaving the position and
\* its entry, and its second one was submitted and filled.
C19_Witness ==
    /\ pc = "sells"
    /\ Len(orders) = 2
    /\ ~orders[1].ok /\ orders[2].ok
    /\ orders[1].coin # orders[2].coin
    /\ orders[1].coin \in DOMAIN portfolio
    /\ portfolio[orders[1].coin].quantity = wallet[orders[1].coin]
    /\ wallet[orders[1].coin] > 0
    /\ disk = portfolio

\* The persisted entry of coin c, if any.
Persisted(d, c) == IF c \in DOMAIN d THEN <<d[c]>> ELSE <<>>

\* A step rewrites the persisted entry of a coin only if an order of the
\* step for that coin filled.
C20_Step ==
    \A c \in Coins :
       Persisted(disk', c) # Persisted(disk, c)
          => \E i \in Indexes(Appended) :
                /\ Appended[i].coin = c
                /\ Appended[i].ok
                /\ Appended[i].side = "BUY" => Appended[i].filled > 0

\* C20: at every phase boundary and every tick boundary the persisted
\* ledger equals the ledger in memory, and it changes only for orders that
\* filled.
C20_PersistedEqualsMemory ==
    /\ [](disk = portfolio)
    /\ [][C20_Step]_vars

\* C20's case: at the end of a cycle's buy phase the file holds the zeroed
\* entry of a coin the cycle sold and the entry of another coin it bought.
C20_Witness ==
    /\ pc = "final"
    /\ \E i, j \in Indexes(orders) :
          /\ orders[i].side = "SELL" /\ orders[i].ok
          /\ orders[j].side = "BUY" /\ orders[j].ok /\ orders[j].filled > 0
          /\ orders[i].coin # orders[j].coin
          /\ orders[i].coin \in DOMAIN disk /\ disk[orders[i].coin].quantity = 0
          /\ orders[j].coin \in DOMAIN disk /\ disk[orders[j].coin].quantity >= orders[j].filled
    /\ disk = portfolio

\* C21: every order a step submits is for a pair with a precision rule p,
\* for a quantity that is > 0, a multiple of 10^-p, and at most the
\* quantity it was derived from: the balance held for a sell, the
\* candidate's allocation divided by the snapshot price for a buy.
C21_Step ==
    \A i \in Indexes(Appended) :
       LET o == Appended[i]
           p == PAIR_PRECISION[o.coin]
       IN  /\ p # NoRule
           /\ p \in 0 .. MaxPrecision
           /\ o.quantity > 0
           /\ o.quantity % (QScale \div Pow(10, p)) = 0
           /\ o.side = "SELL" => o.quantity <= o.held /\ o.held - o.quantity < QScale \div Pow(10, p)
           /\ o.side = "BUY"
                 => LET a == ShareOf(o.coin, available_cash - 20000 * QScale)
                    IN  /\ o.price > 0
                        /\ o.quantity * o.price * a[2] <= a[1]

C21_OrdersTruncatedDown == [][C21_Step]_vars

\* C21's case: a cycle submitted a sell for less than the balance held and
\* a buy for less than its allocation buys, both cut down to the precision.
C21_Witness ==
    /\ pc = "final"
    /\ \E i, j \in Indexes(orders) :
          /\ orders[i].side = "SELL" /\ orders[i].quantity < orders[i].held
          /\ orders[j].side = "BUY"
          /\ LET a == ShareOf(orders[j].coin, available_cash - 20000 * QScale)
             IN  orders[j].quantity * orders[j].price * a[2] < a[1]

\* C22: a strong-sell order is for a position whose signal is SELL with at
\* least 13 sell votes, a funding order for a position whose signal, of
\* whatever direction, has at least 8 sell votes; the strong-sell and the
\* funding phase leave a position without a signal in the snapshot alone.
C22_Step ==
    /\ \A i \in Indexes(Appended) :
          LET o == Appended[i]
          IN  /\ o.reason = "STRONG_SELL"
                 => /\ pc = "sells"
                    /\ o.side = "SELL"
                    /\ o.coin \in DOMAIN positions
                    /\ o.coin \in DOMAIN technicals
                    /\ technicals[o.coin].signal = "SELL"
                    /\ technicals[o.coin].sell >= 13
              /\ o.reason = "WEAK_SELL"
                 => /\ pc = "buys"
                    /\ o.side = "SELL"
                    /\ o.coin \in DOMAIN positions
                    /\ o.coin \in DOMAIN technicals
                    /\ technicals[o.coin].sell >= 8
    /\ pc \in {"sells", "buys"}
          => \A c \in DOMAIN positions \ DOMAIN technicals :
                /\ \A i \in Indexes(Appended) : Appended[i].coin # c
                /\ wallet'[c] = wallet[c]
                /\ Persisted(portfolio', c) = Persisted(portfolio, c)

RECURSIVE Proceeds(_, _)
Proceeds(seq, i) ==
    IF i > Len(seq) THEN 0
    ELSE (IF seq[i].side = "SELL" /\ seq[i].ok THEN seq[i].usd ELSE 0) + Proceeds(seq, i + 1)

\* C23: the cycle's available cash starts as the free cash read at the
\* cycle's start and grows, in the risk, the strong-sell and the funding
\* phase, by the proceeds of that phase's successful sells and by nothing
\* else; the buy phase plans with that sum less RESERVE_CASH.
C23_Step ==
    /\ pc = "head" /\ pc' = "risk" => available_cash' = cash
    /\ pc \in {"risk", "sells", "buys"} /\ pc' \in {"sells", "buys", "alloc"}
          => /\ available_cash' = available_cash + Proceeds(Appended, 1)
             /\ \A i \in Indexes(Appended) : Appended[i].side = "SELL"
             /\ (\A i \in Indexes(Appended) : ~Appended[i].ok)
                   => available_cash' = available_cash
    /\ pc = "alloc" /\ pc' = "final"
          => /\ available_cash' = available_cash
             /\ \A i \in Indexes(Appended) :
                   LET o == Appended[i]
                   IN  /\ o.side = "BUY"
                       /\ o.quantity = SharesBought(o.coin, available_cash - 20000 * QScale,
                                                    PAIR_PRECISION[o.coin])

C23_DeployableCash == [][C23_Step]_vars

\* C23's case: a buy phase that planned with the proceeds of a successful
\* sell of the funding phase and of one of an earlier phase while another
\* sell had failed.
C23_Witness ==
    /\ pc = "final"
    /\ \E i, k, m, n \in Indexes(orders) :
          /\ orders[i].ok /\ PhaseOf(orders[i]) \in {1, 2} /\ orders[i].usd > 0
          /\ orders[m].ok /\ orders[m].reason = "WEAK_SELL" /\ orders[m].usd > 0
          /\ orders[k].side = "SELL" /\ ~orders[k].ok
          /\ orders[n].side = "BUY"

\* A result of a loop that submitted nothing and changed nothing.
Inert(st) ==
    /\ st.log = <<>>
    /\ st.wallet = wallet /\ st.cash = cash
    /\ st.pf = portfolio /\ st.disk = disk

\* The fast check returns without an order or a change whenever its balance
\* or its ticker query fails.
C24_FastCheckSkips ==
    pc \in {"head", "quick"}
       => \A balance_ok, ticker_ok \in BOOLEAN :
             (~balance_ok \/ ~ticker_ok)
                => \A st \in quick_tp_sl_check_and_sell(balance_ok, ticker_ok) : Inert(st)

\* A full cycle left before its risk phase (no balance, no technical data),
\* and a fast check that returned without evaluating anything, submitted
\* no order and changed no balance and no ledger entry; main goes on as
\* after any other cycle or check: timer reset and fast check next, timer
\* advanced and back at the head of the loop.
C24_Step ==
    /\ pc = "head" /\ pc' = "quick"
          => /\ orders' = <<>>
             /\ wallet' = wallet /\ cash' = cash
             /\ portfolio' = portfolio /\ disk' = disk
             /\ full_cycle_count' = full_cycle_count + 1
             /\ time_since_full_cycle' = 0
    /\ (/\ quick_check_count' # quick_check_count
        /\ time_since_full_cycle' # time_since_full_cycle
        /\ evals' = NotEvaluated)
          => /\ orders' = <<>>
             /\ wallet' = wallet /\ cash' = cash
             /\ portfolio' = portfolio /\ disk' = disk
             /\ time_since_full_cycle' = time_since_full_cycle + 15
             /\ pc' = "head"

\* C24: a full cycle whose balance query fails or that gets no technical
\* data, and a fast check whose balance or ticker query fails, submits no
\* order and changes no balance and no ledger entry, and the scheduler
\* goes on as after a cycle or check that had nothing to do.
C24_FailedFetchSkips ==
    /\ []C24_FastCheckSkips
    /\ [][C24_Step]_vars

\* C24's case: with a position held that has a ledger entry, the full
\* cycle was skipped before its risk phase and the fast check after it
\* returned without evaluating the position; the timer went on.
C24_Witness ==
    /\ pc = "head"
    /\ full_cycle_count = 1 /\ quick_check_count = 1
    /\ time_since_full_cycle = 15
    /\ evals = NotEvaluated
    /\ orders = <<>>
    /\ \E c \in DOMAIN portfolio : wallet[c] > 0 /\ portfolio[c].quantity = wallet[c]

\* The planner's candidate list and allocations in the cycle's snapshot:
\* the list holds each instrument with BUY and at least 13 buy votes once
\* and no other, scores never rise along it, each allocation is twice the
\* next one and the first is more than half of cash_to_invest, as they are
\* for any number of candidates up to MaxBuys.
C25_Ranking ==
    pc \in {"buys", "alloc"} =>
       LET signals == buy_signals(rank_pairs_by_technicals(technicals), technicals)
           N == Len(signals)
           cti == available_cash - 20000 * QScale
           a(k) == allocation(N, k, cti)
       IN  /\ {signals[k] : k \in 1 .. N} = Candidates
           /\ N = Cardinality(Candidates)
           /\ \A k \in 1 .. N - 1 :
                 technicals[signals[k]].score >= technicals[signals[k + 1]].score
           /\ (pc = "alloc" /\ cti > 0) =>
                 /\ \A k \in 1 .. N - 1 :
                       /\ a(k)[2] > 0 /\ a(k + 1)[2] > 0
                       /\ a(k)[1] * a(k + 1)[2] = 2 * a(k + 1)[1] * a(k)[2]
                 /\ \A k, m \in 1 .. N :
                       technicals[signals[k]].score > technicals[signals[m]].score
                          => a(k)[1] * a(m)[2] >= a(m)[1] * a(k)[2]
                 /\ N >= 1 => 2 * a(1)[1] > cti * a(1)[2]
                 /\ \A n \in 1 .. MaxBuys :
                       /\ 2 * allocation(n, 1, cti)[1] > cti * allocation(n, 1, cti)[2]
                       /\ \A k \in 1 .. n - 1 :
                             allocation(n, k, cti)[1] * allocation(n, k + 1, cti)[2]
                                = 2 * allocation(n, k + 1, cti)[1] * allocation(n, k, cti)[2]

\* The buy phase submits its orders in the order of the ranking, each for
\* a candidate.
C25_Step ==
    pc = "alloc" =>
       \A i, j \in Indexes(Appended) :
          /\ Appended[i].coin \in Candidates
          /\ i < j => /\ RankOf(Appended[i].coin) < RankOf(Appended[j].coin)
                      /\ technicals[Appended[i].coin].score
                            >= technicals[Appended[j].coin].score

WeakSells ==
    {c \in DOMAIN positions :
        /\ c \in DOMAIN technicals
        /\ technicals[c].sell >= 8
        /\ PAIR_PRECISION[c] # NoRule
        /\ Floored(positions[c], PAIR_PRECISION[c]) > 0}

\* With a candidate the funding phase submits a sell for each of those
\* positions whatever the cash is, and only then the deployable cash is
\* tested: at $10 or less execute_buys returns without a buy.
C26_Step ==
    /\ pc = "buys" /\ Candidates # {}
          => /\ pc' = "alloc"
             /\ {Appended[i].coin : i \in Indexes(Appended)} = WeakSells
             /\ \A i \in Indexes(Appended) :
                   /\ Appended[i].reason = "WEAK_SELL"
                   /\ Appended[i].quantity
                         = Floored(positions[Appended[i].coin], PAIR_PRECISION[Appended[i].coin])
             /\ available_cash' = available_cash + Proceeds(Appended, 1)
    /\ pc = "alloc" /\ available_cash - 20000 * QScale <= 10 * QScale
          => /\ pc' = "quick"
             /\ orders' = orders
             /\ wallet' = wallet /\ cash' = cash
             /\ portfolio' = portfolio /\ disk' = disk
    /\ pc = "alloc" /\ pc' = "final" => available_cash - 20000 * QScale > 10 * QScale

\* C26: in a cycle with a strong-buy candidate the funding sells come
\* before the test of the deployable cash: the weak-sell positions are
\* sold even when available cash less the reserve is then $10 or less and
\* the cycle submits no buy.
C26_FundingBeforeCashCheck == [][C26_Step]_vars

\* C26's case: a cycle returned from execute_buys without a buy after a
\* funding sell had filled, the cash with the proceeds still being no more
\* than the reserve plus $10.
C26_Witness ==
    /\ pc = "quick"
    /\ full_cycle_count = 1
    /\ cash <= (20000 + 10) * QScale
    /\ \E i \in Indexes(orders) :
          orders[i].reason = "WEAK_SELL" /\ orders[i].ok /\ orders[i].usd > 0
    /\ \A i \in Indexes(orders) : orders[i].side = "SELL"

\* C27 as stated: at the head of every iteration the timer is a multiple
\* of 15 from 15 to 600.
C27_HeadRangeFrom15 ==
    pc = "head" => /\ time_since_full_cycle % 15 = 0
                   /\ time_since_full_cycle >= 15
                   /\ time_since_full_cycle <= 600

\* The timer is a multiple of 15 from 0 to 600: 600 while a cycle runs, 0
\* when it has returned.
C27_Range ==
    /\ time_since_full_cycle % 15 = 0
    /\ time_since_full_cycle >= 0
    /\ time_since_full_cycle <= 600
    /\ pc \in {"risk", "sells", "buys", "alloc", "final"} => time_since_full_cycle = 600
    /\ pc = "quick" => time_since_full_cycle = 0

\* The timer changes only by the reset to 0 on a cycle's return and by 15
\* on the return of a counted fast check; it is 0 at the head only when the
\* fast check after a returned cycle raised; a cycle that raised is due
\* again at the head, where no fast check runs.
C27_Step ==
    /\ time_since_full_cycle' # time_since_full_cycle
          => \/ /\ time_since_full_cycle' = 0
                /\ pc \in {"head", "buys", "alloc", "final"}
                /\ pc' = "quick"
                /\ time_since_full_cycle = 600
             \/ /\ time_since_full_cycle' = time_since_full_cycle + 15
                /\ quick_check_count' = quick_check_count + 1
                /\ pc' = "head"
    /\ pc' = "head" /\ time_since_full_cycle' = 0
          => /\ pc \in {"quick", "head"}
             /\ time_since_full_cycle = 0
             /\ quick_check_count' = quick_check_count + 1
    /\ pc \in {"head", "risk", "final"} /\ time_since_full_cycle = 600 /\ pc' = "head"
          => /\ time_since_full_cycle' = 600
             /\ quick_check_count' = quick_check_count
    /\ pc = "head" /\ time_since_full_cycle = 600
          => quick_check_count' = quick_check_count

\* C27, amended: the timer is a multiple of 15 in [0, 600], at the head of
\* an iteration too, where it is 0 only while the fast check that follows
\* a returned cycle keeps raising; it is reset to 0 only on the return of
\* a full cycle and advances only on the return of a fast check, so that a
\* cycle that raises is due again at the next head and no fast check runs
\* in between.
C27_TimerDiscipline ==
    /\ []C27_Range
    /\ [][C27_Step]_vars

\* C27's case: one cycle raised and one returned, and 40 fast checks have
\* taken the timer from 0 to 600, where a cycle is due again.
C27_Witness ==
    /\ pc = "head"
    /\ time_since_full_cycle = 600
    /\ quick_check_count = 40
    /\ full_cycle_count = 2

\* Every ledger entry with a quantity > 0 has an average cost > 0.
C28_CostPositive ==
    \A c \in DOMAIN portfolio :
       portfolio[c].quantity > 0
          => portfolio[c].buy_price[1] > 0 /\ portfolio[c].buy_price[2] > 0

\* A buy fill for a coin whose entry has a quantity > 0 leaves the average
\* cost between the previous one and the buy's price, both included.
C28_Step ==
    \A i \in BuyFills :
       LET o == Appended[i]
           old == EntryOf(portfolio, o.coin)
           a == old.buy_price[1]
           b == old.buy_price[2]
           n == portfolio'[o.coin].buy_price[1]
           d == portfolio'[o.coin].buy_price[2]
       IN  old.quantity > 0
              => /\ b > 0 /\ d > 0
                 /\ IF a <= o.price * b
                    THEN a * d <= n * b /\ n <= o.price * d
                    ELSE o.price * d <= n /\ n * b <= a * d

=============================================================================
